---- MODULE Spec2Model ----
(***************************************************************************)
(* README Lens: the repository scanner (app/scanner.py), the scan cache    *)
(* (app/db.py), the GitHub client (app/github.py) and the request handlers *)
(* (app/main.py).                                                          *)
(*                                                                         *)
(* Text that the code inspects character by character (README lines,       *)
(* headings, heading variants, repository URLs) is a sequence of           *)
(* one-character strings.  File names, branch names and the fixed          *)
(* suggestion texts are only compared for equality and are strings.        *)
(* A Python Optional[str] is <<>> (None) or <<s>>.                         *)
(***************************************************************************)
EXTENDS Integers, Sequences, FiniteSets, TLC

VARIABLES
    root,       \* SpecScan: the extracted tree handed to scan_repo
    found,      \* SpecScan: <<>> or <<the dict scan_repo returned>>
    rows,       \* table scans: the set of rows
    seq,        \* sqlite_sequence of table scans (AUTOINCREMENT): largest id ever used
    resp,       \* the last db call and what it returned
    lastPut,    \* history: key -> arguments of the latest save_scan for that key
    head,       \* remote: repository -> commit its default branch points to
    now,        \* int(time.time())
    req,        \* the /scan requests in flight, each at one of its await points
    onb         \* the last /onboarding request and its response

vars == <<root, found, rows, seq, resp, lastPut, head, now, req, onb>>

----------------------------------------------------------------------------
(* Characters *)

IsSpace(c) == c \in {" ", "\t"}

UpperAlpha == <<"A","B","C","D","E","F","G","H","I","J","K","L","M",
                "N","O","P","Q","R","S","T","U","V","W","X","Y","Z">>

LowerAlpha == <<"a","b","c","d","e","f","g","h","i","j","k","l","m",
                "n","o","p","q","r","s","t","u","v","w","x","y","z">>

\* str.lower() on one character
LowerChar(c) ==
    IF \E i \in 1..Len(UpperAlpha) : UpperAlpha[i] = c
    THEN LowerAlpha[CHOOSE i \in 1..Len(UpperAlpha) : UpperAlpha[i] = c]
    ELSE c

Lower(s) == [i \in 1..Len(s) |-> LowerChar(s[i])]

\* str.lstrip() / str.rstrip() / str.strip()
LStrip(s) ==
    IF \A i \in 1..Len(s) : IsSpace(s[i])
    THEN <<>>
    ELSE LET k == CHOOSE i \in 1..Len(s) :
                      ~IsSpace(s[i]) /\ \A j \in 1..(i-1) : IsSpace(s[j])
         IN  SubSeq(s, k, Len(s))

RStrip(s) ==
    IF \A i \in 1..Len(s) : IsSpace(s[i])
    THEN <<>>
    ELSE LET k == CHOOSE i \in 1..Len(s) :
                      ~IsSpace(s[i]) /\ \A j \in (i+1)..Len(s) : IsSpace(s[j])
         IN  SubSeq(s, 1, k)

Strip(s) == LStrip(RStrip(s))

\* Python's  v in h  on strings
Contains(h, v) ==
    \E i \in 1..(Len(h) - Len(v) + 1) : SubSeq(h, i, i + Len(v) - 1) = v

\* h starts with p
StartsWith(h, p) == Len(h) >= Len(p) /\ SubSeq(h, 1, Len(p)) = p

\* The backquote character (the lexer of TLA+ reserves it inside strings).
Backquote == "BACKQUOTE"

\* re.sub(backquotes, "", h)
StripBackticks(h) == SelectSeq(h, LAMBDA c : c # Backquote)

\* re.sub(r"\s+", " ", h)
RECURSIVE CollapseFrom(_, _)
CollapseFrom(h, i) ==
    IF i > Len(h) THEN <<>>
    ELSE IF ~IsSpace(h[i]) THEN <<h[i]>> \o CollapseFrom(h, i + 1)
    ELSE IF i > 1 /\ IsSpace(h[i-1]) THEN CollapseFrom(h, i + 1)
    ELSE <<" ">> \o CollapseFrom(h, i + 1)

CollapseSpaces(h) == CollapseFrom(h, 1)

----------------------------------------------------------------------------
(* app/scanner.py *)

README_NAMES == <<"README.md", "readme.md", "README.MD", "README">>

DOC_FILES == <<
    <<"LICENSE",         <<"LICENSE", "LICENSE.md", "LICENSE.txt">> >>,
    <<"CONTRIBUTING",    <<"CONTRIBUTING.md", "CONTRIBUTING">> >>,
    <<"CODE_OF_CONDUCT", <<"CODE_OF_CONDUCT.md", "CODE_OF_CONDUCT">> >>,
    <<"SECURITY",        <<"SECURITY.md", "SECURITY">> >>,
    <<"CHANGELOG",       <<"CHANGELOG.md", "CHANGELOG">> >> >>

ENV_FILES == <<".env.example", ".env.sample", ".env.template", "env.example">>

BUILD_FILES == <<"Makefile", "docker-compose.yml", "docker-compose.yaml",
                 "compose.yml", "compose.yaml", "package.json", "pnpm-lock.yaml",
                 "yarn.lock", "requirements.txt", "pyproject.toml", "poetry.lock">>

COMMON_HEADINGS == <<
    <<"installation",  << <<"i","n","s","t","a","l","l","a","t","i","o","n">>,
                          <<"i","n","s","t","a","l","l">>,
                          <<"s","e","t","u","p">> >> >>,
    <<"usage",         << <<"u","s","a","g","e">>,
                          <<"q","u","i","c","k","s","t","a","r","t">>,
                          <<"g","e","t","t","i","n","g"," ","s","t","a","r","t","e","d">> >> >>,
    <<"development",   << <<"d","e","v","e","l","o","p","m","e","n","t">>,
                          <<"d","e","v">>,
                          <<"c","o","n","t","r","i","b","u","t","i","n","g">> >> >>,
    <<"configuration", << <<"c","o","n","f","i","g","u","r","a","t","i","o","n">>,
                          <<"c","o","n","f","i","g">>,
                          <<"e","n","v","i","r","o","n","m","e","n","t"," ","v","a","r","i","a","b","l","e","s">>,
                          <<"e","n","v">> >> >>,
    <<"tests",         << <<"t","e","s","t","s">>,
                          <<"t","e","s","t","i","n","g">> >> >>,
    <<"license",       << <<"l","i","c","e","n","s","e">> >> >> >>

\* the keys of a list of (key, value) pairs, in order, and the set of them
KeysOf(table) == [i \in 1..Len(table) |-> table[i][1]]

KeySet(table) == {table[i][1] : i \in 1..Len(table)}

Lookup(table, k) == table[CHOOSE i \in 1..Len(table) : table[i][1] = k][2]

\* A tree is [files |-> the names of the regular files directly under the root,
\*            readme |-> the lines (str.splitlines) of the README, <<>> without one].
\* find_first: the first candidate that exists and is a regular file, or None.
find_first(tree, names) ==
    IF \E i \in 1..Len(names) : names[i] \in tree.files
    THEN <<names[CHOOSE i \in 1..Len(names) :
                     /\ names[i] \in tree.files
                     /\ \A j \in 1..(i-1) : names[j] \notin tree.files]>>
    ELSE <<>>

\* HEADING_RE.match(line.strip()): 1 to 6 '#', then whitespace, then the text.
\* The result is <<>> (no match) or <<group(1)>>.
HashRun(s) ==
    IF s = <<>> \/ s[1] # "#" THEN 0
    ELSE CHOOSE n \in 1..Len(s) :
             /\ \A j \in 1..n : s[j] = "#"
             /\ (n = Len(s) \/ s[n+1] # "#")

HEADING_RE(line) ==
    LET s == Strip(line)
        n == HashRun(s)
    IN  IF n >= 1 /\ n <= 6 /\ n < Len(s) /\ IsSpace(s[n+1])
        THEN <<LStrip(SubSeq(s, n + 1, Len(s)))>>
        ELSE <<>>

\* the normalisation of one matched heading
NormalizeHeading(h) == Lower(Strip(CollapseSpaces(StripBackticks(h))))

RECURSIVE HeadingsFrom(_, _)
HeadingsFrom(lines, i) ==
    IF i > Len(lines) THEN <<>>
    ELSE LET m == HEADING_RE(lines[i])
         IN  IF m = <<>> THEN HeadingsFrom(lines, i + 1)
             ELSE <<NormalizeHeading(m[1])>> \o HeadingsFrom(lines, i + 1)

extract_headings(lines) == HeadingsFrom(lines, 1)

heading_present(headings, variants) ==
    \E i \in 1..Len(headings) : \E j \in 1..Len(variants) :
        Contains(headings[i], variants[j])

\* add without its test of ok
add_always(score, points, ok) == score + points

\* the nested function add(points, ok) of scan_repo, on the running score
add(score, points, ok) == IF ok THEN score + points ELSE score

\* str.title() of a section key
Title(section) ==
    CASE section = "installation"  -> "Installation"
      [] section = "usage"         -> "Usage"
      [] section = "development"   -> "Development"
      [] section = "configuration" -> "Configuration"
      [] section = "tests"         -> "Tests"
      [] section = "license"       -> "License"

Min(a, b) == IF a <= b THEN a ELSE b

\* the files scan_repo records: the five doc categories, ENV_EXAMPLE, and each
\* build file that exists, under its own name
ScanFiles(tree) ==
    LET present == {BUILD_FILES[i] : i \in 1..Len(BUILD_FILES)} \cap tree.files
    IN  [k \in KeySet(DOC_FILES) \cup {"ENV_EXAMPLE"} \cup present |->
            IF k \in KeySet(DOC_FILES) THEN find_first(tree, Lookup(DOC_FILES, k))
            ELSE IF k = "ENV_EXAMPLE" THEN find_first(tree, ENV_FILES)
            ELSE <<k>>]

\* the sections of scan_repo: heading_present per category, all False without README
ScanSections(readme_path, headings) ==
    [k \in KeySet(COMMON_HEADINGS) |->
        IF readme_path # <<>>
        THEN heading_present(headings, Lookup(COMMON_HEADINGS, k))
        ELSE FALSE]

ScanScore(readme_path, files, sections) ==
    LET s1  == add(0, 25, readme_path # <<>>)
        s2  == add(s1, 8, files["LICENSE"] # <<>>)
        s3  == add(s2, 8, files["CONTRIBUTING"] # <<>>)
        s4  == add(s3, 5, files["CODE_OF_CONDUCT"] # <<>>)
        s5  == add(s4, 5, files["SECURITY"] # <<>>)
        s6  == add(s5, 4, files["CHANGELOG"] # <<>>)
        s7  == add(s6, 10, files["ENV_EXAMPLE"] # <<>>)
        s8  == add(s7, 6, sections["installation"])
        s9  == add(s8, 6, sections["usage"])
        s10 == add(s9, 6, sections["configuration"])
        s11 == add(s10, 4, sections["tests"])
        s12 == add(s11, 4, sections["development"])
    IN  Min(s12, 100)

\* the section suggestions with the filter on the four sections left out
RECURSIVE SectionSuggestions_unfiltered(_, _)
SectionSuggestions_unfiltered(sections, i) ==
    IF i > Len(COMMON_HEADINGS) THEN <<>>
    ELSE LET section == COMMON_HEADINGS[i][1]
         IN  IF ~sections[section]
             THEN <<"Add a README section: " \o Title(section) \o ".">>
                      \o SectionSuggestions_unfiltered(sections, i + 1)
             ELSE SectionSuggestions_unfiltered(sections, i + 1)

\* the section suggestions, in the iteration order of the sections dict
RECURSIVE SectionSuggestions(_, _)
SectionSuggestions(sections, i) ==
    IF i > Len(COMMON_HEADINGS) THEN <<>>
    ELSE LET section == COMMON_HEADINGS[i][1]
         IN  IF ~sections[section]
                /\ section \in {"installation", "usage", "configuration", "tests"}
             THEN <<"Add a README section: " \o Title(section) \o ".">>
                      \o SectionSuggestions(sections, i + 1)
             ELSE SectionSuggestions(sections, i + 1)

ScanSuggestions(readme_path, files, sections) ==
    (IF readme_path = <<>>
     THEN <<"Add a README.md with purpose + quickstart + dev instructions.">>
     ELSE SectionSuggestions(sections, 1))
    \o (IF files["LICENSE"] = <<>>
        THEN <<"Add a LICENSE file (MIT/Apache-2.0/etc).">> ELSE <<>>)
    \o (IF files["CONTRIBUTING"] = <<>>
        THEN <<"Add CONTRIBUTING.md with local dev + PR guidelines.">> ELSE <<>>)
    \o (IF files["ENV_EXAMPLE"] = <<>>
        THEN <<"Add .env.example (or document required environment variables).">>
        ELSE <<>>)

scan_repo(tree) ==
    LET readme_path == find_first(tree, README_NAMES)
        headings    == IF readme_path # <<>> THEN extract_headings(tree.readme) ELSE <<>>
        sections    == ScanSections(readme_path, headings)
        files       == ScanFiles(tree)
    IN  [files       |-> files,
         readme      |-> [path |-> readme_path, headings |-> headings,
                          sections |-> sections],
         score       |-> ScanScore(readme_path, files, sections),
         suggestions |-> ScanSuggestions(readme_path, files, sections)]

\* generate_onboarding_md: the five checklist marks and the environment sentence
\* are all that varies in the template
generate_onboarding_md(owner, repo, scan) ==
    LET has_env == scan.files["ENV_EXAMPLE"] # <<>>
        yn(v)   == IF v THEN "[x]" ELSE "[ ]"
    IN  [title  |-> <<owner, repo>>,
         checklist |-> <<yn(scan.readme.path # <<>>),
                         yn(scan.files["LICENSE"] # <<>>),
                         yn(scan.files["CONTRIBUTING"] # <<>>),
                         yn(has_env),
                         yn(scan.readme.sections["tests"])>>,
         env    |-> IF has_env
                    THEN "See .env.example and copy it to .env."
                    ELSE "Document required env vars here. Consider adding .env.example."]

----------------------------------------------------------------------------
(* json.dumps / json.loads on the dict scan_repo builds *)

Digits == <<"0","1","2","3","4","5","6","7","8","9">>

\* the decimal text of a non-negative int, and int() of such a text
RECURSIVE Decimal(_)
Decimal(n) ==
    IF n < 10 THEN <<Digits[n + 1]>>
    ELSE Decimal(n \div 10) \o <<Digits[(n % 10) + 1]>>

DigitValue(d) == (CHOOSE i \in 1..Len(Digits) : Digits[i] = d) - 1

RECURSIVE ParseInt(_)
ParseInt(ds) ==
    IF Len(ds) = 1 THEN DigitValue(ds[1])
    ELSE 10 * ParseInt(SubSeq(ds, 1, Len(ds) - 1)) + DigitValue(ds[Len(ds)])

\* the JSON text of the leaves: null, true, false, a number, a quoted string
EncodeOptStr(v) == IF v = <<>> THEN <<"null">> ELSE <<"string", v[1]>>

DecodeOptStr(j) == IF j[1] = "null" THEN <<>> ELSE <<j[2]>>

EncodeBool(b) == IF b THEN <<"true">> ELSE <<"false">>

DecodeBool(j) == j[1] = "true"

EncodeStr(s) == <<"string", s>>

DecodeStr(j) == j[2]

EncodeInt(n) == <<"number", Decimal(n)>>

DecodeInt(j) == ParseInt(j[2])

\* json.dumps(result, ensure_ascii=False): objects keep their keys, arrays their
\* order, every leaf becomes its JSON text
json_dumps(result) ==
    [files       |-> [k \in DOMAIN result.files |-> EncodeOptStr(result.files[k])],
     readme      |-> [path     |-> EncodeOptStr(result.readme.path),
                      headings |-> [i \in 1..Len(result.readme.headings) |->
                                       EncodeStr(result.readme.headings[i])],
                      sections |-> [k \in DOMAIN result.readme.sections |->
                                       EncodeBool(result.readme.sections[k])]],
     score       |-> EncodeInt(result.score),
     suggestions |-> [i \in 1..Len(result.suggestions) |->
                         EncodeStr(result.suggestions[i])]]

json_loads(text) ==
    [files       |-> [k \in DOMAIN text.files |-> DecodeOptStr(text.files[k])],
     readme      |-> [path     |-> DecodeOptStr(text.readme.path),
                      headings |-> [i \in 1..Len(text.readme.headings) |->
                                       DecodeStr(text.readme.headings[i])],
                      sections |-> [k \in DOMAIN text.readme.sections |->
                                       DecodeBool(text.readme.sections[k])]],
     score       |-> DecodeInt(text.score),
     suggestions |-> [i \in 1..Len(text.suggestions) |->
                         DecodeStr(text.suggestions[i])]]

----------------------------------------------------------------------------
(* app/db.py.  A connection conn is [rows |-> the rows of table scans,                *)
(* seq |-> the largest id the table ever held (AUTOINCREMENT)].                *)

\* init_db on a fresh file: the empty table
init_db == [rows |-> {}, seq |-> 0]

RowKey(row) == <<row.owner, row.repo, row.sha>>

\* the rows a new row would collide with under UNIQUE(owner, repo, sha)
Conflicts(conn, owner, repo, sha) ==
    {row \in conn.rows : row.owner = owner /\ row.repo = repo /\ row.sha = sha}

\* get_cached falling back on the newest row of the repository when the sha has none
get_cached_fallback(conn, owner, repo, sha) ==
    LET exact == Conflicts(conn, owner, repo, sha)
        hits  == IF exact # {} THEN exact
                 ELSE {row \in conn.rows : row.owner = owner /\ row.repo = repo}
    IN  IF hits = {} THEN <<>>
        ELSE LET row == CHOOSE r \in hits : \A o \in hits : r.id >= o.id
             IN  <<json_loads(row.result_json)>>

\* get_cached: SELECT result_json ... WHERE owner=? AND repo=? AND sha=?, fetchone();
\* None (<<>>) without a row, else <<json.loads(result_json)>>
get_cached(conn, owner, repo, sha) ==
    LET hits == Conflicts(conn, owner, repo, sha)
    IN  IF hits = {} THEN <<>>
        ELSE LET row == CHOOSE r \in hits : \A o \in hits : r.id <= o.id
             IN  <<json_loads(row.result_json)>>

\* save_scan with a plain INSERT: a row of the same key makes the statement raise
\* sqlite3.IntegrityError and the table stays as it was
save_scan_insert(conn, owner, repo, branch, sha, scanned_at, result) ==
    LET row == [id |-> conn.seq + 1, owner |-> owner, repo |-> repo, branch |-> branch,
                sha |-> sha, scanned_at |-> scanned_at,
                result_json |-> json_dumps(result)]
    IN  IF Conflicts(conn, owner, repo, sha) # {}
        THEN [rows |-> conn.rows, seq |-> conn.seq, raised |-> TRUE]
        ELSE [rows |-> conn.rows \cup {row}, seq |-> conn.seq + 1, raised |-> FALSE]

\* save_scan: INSERT OR REPLACE deletes the rows the new one collides with, then
\* inserts it under a fresh id, and commits.  raised: the statement raised
\* sqlite3.IntegrityError (it never does: REPLACE resolves the conflict).
save_scan(conn, owner, repo, branch, sha, scanned_at, result) ==
    LET row == [id |-> conn.seq + 1, owner |-> owner, repo |-> repo, branch |-> branch,
                sha |-> sha, scanned_at |-> scanned_at,
                result_json |-> json_dumps(result)]
    IN  [rows   |-> (conn.rows \ Conflicts(conn, owner, repo, sha)) \cup {row},
         seq    |-> conn.seq + 1,
         raised |-> FALSE]

\* the columns list_recent selects
Summary(row) ==
    [owner |-> row.owner, repo |-> row.repo, branch |-> row.branch,
     sha |-> row.sha, scanned_at |-> row.scanned_at]

\* ORDER BY scanned_at ASC
RECURSIVE OrderByScannedAtAsc(_)
OrderByScannedAtAsc(S) ==
    IF S = {} THEN {<<>>}
    ELSE UNION { {<<m>> \o t : t \in OrderByScannedAtAsc(S \ {m})} :
                 m \in {r \in S : \A o \in S : o.scanned_at >= r.scanned_at} }

\* ORDER BY scanned_at DESC: every order of the rows that never puts an older
\* row before a newer one (SQL leaves the order of equal scanned_at open)
RECURSIVE OrderByScannedAtDesc(_)
OrderByScannedAtDesc(S) ==
    IF S = {} THEN {<<>>}
    ELSE UNION { {<<m>> \o t : t \in OrderByScannedAtDesc(S \ {m})} :
                 m \in {r \in S : \A o \in S : o.scanned_at <= r.scanned_at} }

\* LIMIT ?: the first limit rows; SQLite reads a negative LIMIT as no limit
Limit(rs, limit) ==
    IF limit < 0 THEN rs ELSE SubSeq(rs, 1, Min(limit, Len(rs)))

\* list_recent: the set of results fetchall() may return
list_recent(conn, limit) ==
    { [i \in 1..Len(Limit(rs, limit)) |-> Summary(Limit(rs, limit)[i])] :
      rs \in OrderByScannedAtDesc(conn.rows) }

\* the connection _conn of app/main.py, on the database as it stands
Conn == [rows |-> rows, seq |-> seq]

----------------------------------------------------------------------------
(* The scanner on its own: scan_repo applied to one tree *)

\* the entries a scanned root may hold
FilePool == {"README.md", "LICENSE", "CONTRIBUTING.md", "CODE_OF_CONDUCT.md",
             "SECURITY.md", "CHANGELOG.md", ".env.example", "Makefile"}

\* the lines a README may hold, in file order:
\*   ## Installation | # (bq)Usage(bq) | ### Env  Config | #### Testing(tab) |
\*   (2 spaces)# Contributing | ###### License | #Setup | ####### Quickstart
ReadmePool == <<
    <<"#","#"," ","I","n","s","t","a","l","l","a","t","i","o","n">>,
    <<"#"," ",Backquote,"U","s","a","g","e",Backquote>>,
    <<"#","#","#"," ","E","n","v"," "," ","C","o","n","f","i","g">>,
    <<"#","#","#","#","\t","T","e","s","t","i","n","g","\t">>,
    <<" "," ","#"," ","C","o","n","t","r","i","b","u","t","i","n","g">>,
    <<"#","#","#","#","#","#"," ","L","i","c","e","n","s","e">>,
    <<"#","S","e","t","u","p">>,
    <<"#","#","#","#","#","#","#"," ","Q","u","i","c","k","s","t","a","r","t">> >>

\* the lines of pool whose index is in S, in order
RECURSIVE PickFrom(_, _, _)
PickFrom(pool, S, i) ==
    IF i > Len(pool) THEN <<>>
    ELSE (IF i \in S THEN <<pool[i]>> ELSE <<>>) \o PickFrom(pool, S, i + 1)

HasReadme(F) == \E i \in 1..Len(README_NAMES) : README_NAMES[i] \in F

Trees ==
    { [files  |-> F,
       readme |-> IF HasReadme(F) THEN PickFrom(ReadmePool, S, 1) ELSE <<>>] :
      F \in SUBSET FilePool, S \in SUBSET (1..Len(ReadmePool)) }

EmptyTree == [files |-> {}, readme |-> <<>>]

----------------------------------------------------------------------------
(* Initial values *)

NoResp == [op |-> "none", key |-> <<>>, limit |-> 0, out |-> <<>>]

InitScanner == root = EmptyTree /\ found = <<>>

InitDb ==
    /\ rows = init_db.rows
    /\ seq = init_db.seq
    /\ resp = NoResp
    /\ lastPut = <<>>
    /\ now = 1

\* no remote repository, no request
InitWeb ==
    /\ head = <<>>
    /\ req = <<>>
    /\ onb = <<>>

----------------------------------------------------------------------------
(* SpecScan *)

InitScan ==
    /\ root \in Trees
    /\ found = <<>>
    /\ InitDb
    /\ InitWeb

Scan ==
    /\ found = <<>>
    /\ found' = <<scan_repo(root)>>
    /\ UNCHANGED <<root, rows, seq, resp, lastPut, head, now, req, onb>>

SpecScan == InitScan /\ [][Scan]_vars

----------------------------------------------------------------------------
(* The cache on its own: save_scan, get_cached and list_recent called on one  *)
(* connection, save_scan with scanned_at=int(time.time()) as app/main.py does *)

MaxTime == 5

MaxPuts == 3

MaxRecentPuts == 5

\* int(time.time()) at the next reading: the wall clock stands still, goes on
\* by a second, or has been set back by one
Clock(t) == {t - 1, t, t + 1} \cap (1..MaxTime)

\* a commit sha (a hex string) is <<n>>, n the number of the commit; "" is <<>>
Sha(n) == <<n>>

OwnerA == <<"a">>

OwnerB == <<"b">>

RepoR == <<"r">>

\* the keys save_scan is called with, and one more that only get_cached is
DbPutKeys == {<<OwnerA, RepoR, Sha(1)>>, <<OwnerA, RepoR, Sha(2)>>}

DbKeys == DbPutKeys \cup {<<OwnerB, RepoR, Sha(1)>>}

DbBranches == {"main", "dev"}

\* two results of scan_repo that differ in every kind of leaf
DbResults ==
    {scan_repo(EmptyTree),
     scan_repo([files  |-> {"README.md", "LICENSE", "Makefile"},
                readme |-> <<ReadmePool[1], ReadmePool[4]>>])}

DbLimits == {25}

\* the keys of SpecRecent, in the order in which they are first used
RecentKeys == [i \in 1..MaxRecentPuts |-> <<OwnerA, RepoR, Sha(i)>>]

RecentLimits == {-1, 0, 1, 3, 25}

\* lastPut after save_scan was called with these arguments by the writer by
\* (a /scan request, or 0 for a direct call)
RecordPut(key, branch, t, result, by) ==
    [k \in DOMAIN lastPut \cup {key} |->
        IF k = key
        THEN [branch |-> branch, scanned_at |-> t, result |-> result, by |-> by,
              prev |-> IF key \in DOMAIN lastPut
                       THEN <<lastPut[key].result>> ELSE <<>>]
        ELSE lastPut[k]]

DbPut(owner, repo, branch, sha, result) ==
    \E t \in Clock(now) :
        LET out == save_scan(Conn, owner, repo, branch, sha, t, result)
        IN  /\ now' = t
            /\ rows' = out.rows
            /\ seq' = out.seq
            /\ resp' = [op |-> "put", key |-> <<owner, repo, sha>>, limit |-> 0,
                        out |-> <<out.raised>>]
            /\ lastPut' = RecordPut(<<owner, repo, sha>>, branch, t, result, 0)
            /\ UNCHANGED <<root, found, head, req, onb>>

DbGet(owner, repo, sha) ==
    /\ resp' = [op |-> "get", key |-> <<owner, repo, sha>>, limit |-> 0,
                out |-> get_cached(Conn, owner, repo, sha)]
    /\ UNCHANGED <<root, found, rows, seq, lastPut, head, now, req, onb>>

\* resp.out: the set of the results fetchall() may return for this call
DbListRecent(limit) ==
    /\ resp' = [op |-> "list", key |-> <<>>, limit |-> limit,
                out |-> list_recent(Conn, limit)]
    /\ UNCHANGED <<root, found, rows, seq, lastPut, head, now, req, onb>>

InitCache == InitScanner /\ InitDb /\ InitWeb

NextDb ==
    \/ /\ seq < MaxPuts
       /\ \E key \in DbPutKeys, branch \in DbBranches, result \in DbResults :
              DbPut(key[1], key[2], branch, key[3], result)
    \/ \E key \in DbKeys : DbGet(key[1], key[2], key[3])
    \/ \E limit \in DbLimits : DbListRecent(limit)

SpecDb == InitCache /\ [][NextDb]_vars

\* SpecRecent: a put takes a key already in the table or the next unused one
NextRecent ==
    \/ /\ seq < MaxRecentPuts
       /\ \E i \in 1..Min(Cardinality(DOMAIN lastPut) + 1, MaxRecentPuts) :
              DbPut(RecentKeys[i][1], RecentKeys[i][2], "main", RecentKeys[i][3],
                    scan_repo(EmptyTree))
    \/ \E limit \in RecentLimits : DbListRecent(limit)

SpecRecent == InitCache /\ [][NextRecent]_vars

----------------------------------------------------------------------------
(* app/github.py.  An HTTP response is [status_code, body], body <<>> or <<x>>. *)
(* A call returns [exc |-> "" or the exception raised, value |-> <<>> or <<v>>]. *)

HttpPrefix == <<"h","t","t","p",":","/","/","g","i","t","h","u","b",".","c","o","m","/">>

HttpsPrefix == <<"h","t","t","p","s",":","/","/","g","i","t","h","u","b",".","c","o","m","/">>

\* the longest prefix of s without a character of stop
TakeUntil(s, stop) ==
    IF \A i \in 1..Len(s) : s[i] \notin stop THEN s
    ELSE SubSeq(s, 1, (CHOOSE i \in 1..Len(s) :
                           s[i] \in stop /\ \A j \in 1..(i-1) : s[j] \notin stop) - 1)

\* GITHUB_RE.match(repo_url.strip()): <<>> (GitHubError raised) or <<owner, repo>>
parse_github_url(repo_url) ==
    LET s     == Strip(repo_url)
        rest  == IF StartsWith(s, HttpsPrefix) THEN <<SubSeq(s, Len(HttpsPrefix) + 1, Len(s))>>
                 ELSE IF StartsWith(s, HttpPrefix) THEN <<SubSeq(s, Len(HttpPrefix) + 1, Len(s))>>
                 ELSE <<>>
        owner == IF rest = <<>> THEN <<>> ELSE TakeUntil(rest[1], {"/"})
        after == IF rest = <<>> \/ Len(owner) + 1 > Len(rest[1]) THEN <<>>
                 ELSE SubSeq(rest[1], Len(owner) + 2, Len(rest[1]))
        repo  == TakeUntil(after, {"/", "#", "?"})
    IN  IF owner # <<>> /\ repo # <<>> THEN <<owner, repo>> ELSE <<>>

Raise(exc) == [exc |-> exc, value |-> <<>>]

Return(v) == [exc |-> "", value |-> <<v>>]

get_repo_meta(r) ==
    IF r.status_code = 404 THEN Raise("GitHubError")
    ELSE IF r.status_code = 403 THEN Raise("GitHubError")
    ELSE IF r.status_code >= 400 THEN Raise("HTTPStatusError")
    ELSE Return(r.body[1])

\* data.get("sha") or ""
get_latest_sha(r) ==
    IF r.status_code \in {404, 409} THEN Raise("GitHubError")
    ELSE IF r.status_code = 403 THEN Raise("GitHubError")
    ELSE IF r.status_code >= 400 THEN Raise("HTTPStatusError")
    ELSE Return(IF r.body[1].sha = <<>> THEN <<>> ELSE r.body[1].sha[1])

\* the body of the archive response is the sequence of the directories the zip
\* extracts to; the first one is returned
download_default_branch_zip(r) ==
    IF r.status_code = 404 THEN Raise("GitHubError")
    ELSE IF r.status_code = 403 THEN Raise("GitHubError")
    ELSE IF r.status_code >= 400 THEN Raise("HTTPStatusError")
    ELSE IF r.body[1] = <<>> THEN Raise("GitHubError")
    ELSE Return(r.body[1][1])

----------------------------------------------------------------------------
(* GitHub: one public repository a/r whose default branch main moves on *)

MaxCommits == 2

MaxReqs == 2

ReqIds == 1..MaxReqs

RemoteRepos == {<<OwnerA, RepoR>>}

\* the tree of commit n: every commit adds a file and a README line
CommitFiles == <<"README.md", "LICENSE", ".env.example", "CONTRIBUTING.md", "Makefile">>

TreeAt(n) ==
    [files  |-> {CommitFiles[i] : i \in 1..Min(n, Len(CommitFiles))},
     readme |-> SubSeq(ReadmePool, 1, Min(n, Len(ReadmePool)))]

Urls == {
    <<"h","t","t","p","s",":","/","/","g","i","t","h","u","b",".","c","o","m","/","a","/","r">>,
    <<" "," ","h","t","t","p",":","/","/","g","i","t","h","u","b",".","c","o","m","/","a","/","r","/","i","s","s","u","e","s","?","q","=","1"," ">>,
    <<"h","t","t","p","s",":","/","/","g","i","t","h","u","b",".","c","o","m","/","b","/","r","#","r","e","a","d","m","e">>,
    <<"h","t","t","p","s",":","/","/","g","i","t","l","a","b",".","c","o","m","/","a","/","r">>,
    <<"h","t","t","p","s",":","/","/","g","i","t","h","u","b",".","c","o","m","/","a">> }

Http(status_code, body) == [status_code |-> status_code, body |-> body]

\* GET /repos/{owner}/{repo}
MetaResponses(ref) ==
    IF ref \in DOMAIN head
    THEN {Http(200, <<[default_branch |-> <<"main">>]>>), Http(403, <<>>), Http(500, <<>>)}
    ELSE {Http(404, <<>>), Http(403, <<>>)}

\* GET /repos/{owner}/{repo}/commits/{branch}: the commit the branch points to
\* now; a payload without sha is answered too
CommitResponses(ref, branch) ==
    IF ref \in DOMAIN head /\ branch = "main"
    THEN {Http(200, <<[sha |-> <<Sha(head[ref])>>]>>), Http(200, <<[sha |-> <<>>]>>),
          Http(403, <<>>), Http(409, <<>>), Http(500, <<>>)}
    ELSE {Http(404, <<>>)}

\* GET codeload .../zip/refs/heads/{branch}: the tree the branch points to now
ZipResponses(ref, branch) ==
    IF ref \in DOMAIN head /\ branch = "main"
    THEN {Http(200, << <<TreeAt(head[ref])>> >>), Http(200, << <<>> >>),
          Http(403, <<>>), Http(404, <<>>), Http(500, <<>>)}
    ELSE {Http(404, <<>>)}

----------------------------------------------------------------------------
(* app/main.py: scan, cut at its awaits, and onboarding *)

IdleReq ==
    [pc |-> "idle", ref |-> <<>>, branch |-> "", sha |-> <<>>, resolved |-> FALSE,
     looked |-> <<>>, fetched |-> FALSE, cached |-> FALSE, scan_result |-> <<>>,
     puts |-> <<>>, status |-> 0]

\* except GitHubError: 400; except Exception: 500.  The error page shows the
\* message only: nothing the request had found out is kept
Failed(q, exc) ==
    [IdleReq EXCEPT !.pc = "done", !.status = IF exc = "GitHubError" THEN 400 ELSE 500]

\* a dict or None as an if condition
Truthy(v) == v # <<>> /\ DOMAIN v[1] # {}

\* line 69, up to the await of get_repo_meta
scan_begin(repo_url) ==
    LET ref == parse_github_url(repo_url)
    IN  IF ref = <<>> THEN Failed(IdleReq, "GitHubError")
        ELSE [IdleReq EXCEPT !.pc = "meta", !.ref = ref]

\* lines 71-73, up to the await of get_latest_sha
scan_on_meta(q, r) ==
    LET meta == get_repo_meta(r)
    IN  IF meta.exc # "" THEN Failed(q, meta.exc)
        ELSE [q EXCEPT !.pc = "sha",
                       !.branch = IF meta.value[1].default_branch # <<>>
                                  THEN meta.value[1].default_branch[1] ELSE "main"]

\* the scan without its cache lookup: the archive is always downloaded
scan_on_sha_nolookup(conn, q, r) ==
    LET got == get_latest_sha(r)
    IN  IF got.exc # "" THEN Failed(q, got.exc)
        ELSE [q EXCEPT !.pc = "zip", !.sha = got.value[1], !.resolved = TRUE,
                       !.fetched = TRUE]

\* the scan that downloads and scans again on a cache hit
scan_on_sha_rescan(conn, q, r) ==
    LET got == get_latest_sha(r)
    IN  IF got.exc # "" THEN Failed(q, got.exc)
        ELSE LET sha == got.value[1]
             IN  [q EXCEPT !.pc = "zip", !.sha = sha, !.resolved = TRUE,
                           !.looked = IF sha # <<>> THEN <<<<q.ref[1], q.ref[2], sha>>>>
                                      ELSE <<>>,
                           !.fetched = TRUE]

\* lines 73-80: get_latest_sha returns, the cache is read, and on a miss the
\* download is awaited
scan_on_sha(conn, q, r) ==
    LET got == get_latest_sha(r)
    IN  IF got.exc # "" THEN Failed(q, got.exc)
        ELSE LET sha         == got.value[1]
                 cached_scan == IF sha # <<>>
                                THEN get_cached(conn, q.ref[1], q.ref[2], sha)
                                ELSE <<>>
                 looked      == IF sha # <<>> THEN <<<<q.ref[1], q.ref[2], sha>>>>
                                ELSE <<>>
             IN  IF Truthy(cached_scan)
                 THEN [q EXCEPT !.pc = "done", !.status = 200, !.sha = sha,
                                !.resolved = TRUE, !.looked = looked,
                                !.scan_result = cached_scan, !.cached = TRUE]
                 ELSE [q EXCEPT !.pc = "zip", !.sha = sha, !.resolved = TRUE,
                                !.looked = looked, !.fetched = TRUE]

\* line 90 is reached: the download succeeds and sha is not empty
ReadsClock(q, r) == download_default_branch_zip(r).exc = "" /\ q.sha # <<>>

\* lines 80-92 and the response: the archive arrives, scan_repo runs, and with a
\* sha the result is saved with scanned_at = t.
\* [q |-> the request afterwards, conn |-> the table afterwards, saved |-> save_scan stored the row]
scan_on_zip(conn, q, r, t) ==
    LET dl == download_default_branch_zip(r)
    IN  IF dl.exc # "" THEN [q |-> Failed(q, dl.exc), conn |-> conn, saved |-> FALSE]
        ELSE LET scan_result == scan_repo(dl.value[1])
                 done == [q EXCEPT !.pc = "done", !.status = 200,
                                   !.scan_result = <<scan_result>>, !.cached = FALSE]
             IN  IF q.sha # <<>>
                 THEN LET out == save_scan(conn, q.ref[1], q.ref[2], q.branch, q.sha,
                                           t, scan_result)
                          put == [done EXCEPT !.puts = <<<<q.ref[1], q.ref[2], q.sha>>>>]
                      IN  [q     |-> IF out.raised
                                     THEN [Failed(put, "IntegrityError") EXCEPT
                                               !.puts = put.puts]
                                     ELSE put,
                           conn  |-> [rows |-> out.rows, seq |-> out.seq],
                           saved |-> ~out.raised]
                 ELSE [q |-> done, conn |-> conn, saved |-> FALSE]

\* onboarding answering a miss with the document of an empty scan
onboarding_blank(conn, owner, repo, branch, sha) ==
    [key |-> <<owner, repo, sha>>, looked |-> <<<<owner, repo, sha>>>>, status |-> 200,
     body |-> <<generate_onboarding_md(owner, repo, scan_repo(EmptyTree))>>]

\* onboarding: the response to GET /onboarding; looked: the keys get_cached was
\* called with
onboarding(conn, owner, repo, branch, sha) ==
    LET scan_result == get_cached(conn, owner, repo, sha)
        key         == <<owner, repo, sha>>
    IN  IF ~Truthy(scan_result)
        THEN [key |-> key, looked |-> <<key>>, status |-> 404, body |-> <<>>]
        ELSE [key |-> key, looked |-> <<key>>, status |-> 200,
              body |-> <<generate_onboarding_md(owner, repo, scan_result[1])>>]

----------------------------------------------------------------------------
(* Spec: concurrent /scan requests, /onboarding requests and pushes to GitHub *)

Init ==
    /\ InitScanner
    /\ InitDb
    /\ head = [ref \in RemoteRepos |-> 1]
    /\ req = [r \in ReqIds |-> IdleReq]
    /\ onb = <<>>

ScanStart(r, repo_url) ==
    /\ req[r].pc = "idle"
    /\ req' = [req EXCEPT ![r] = scan_begin(repo_url)]
    /\ onb' = <<>>
    /\ UNCHANGED <<root, found, rows, seq, resp, lastPut, head, now>>

MetaReturns(r) ==
    /\ req[r].pc = "meta"
    /\ \E m \in MetaResponses(req[r].ref) :
           req' = [req EXCEPT ![r] = scan_on_meta(req[r], m)]
    /\ onb' = <<>>
    /\ UNCHANGED <<root, found, rows, seq, resp, lastPut, head, now>>

ShaReturns(r) ==
    /\ req[r].pc = "sha"
    /\ \E m \in CommitResponses(req[r].ref, req[r].branch) :
           req' = [req EXCEPT ![r] = scan_on_sha(Conn, req[r], m)]
    /\ onb' = <<>>
    /\ UNCHANGED <<root, found, rows, seq, resp, lastPut, head, now>>

ZipReturns(r) ==
    /\ req[r].pc = "zip"
    /\ \E m \in ZipResponses(req[r].ref, req[r].branch) :
       \E t \in IF ReadsClock(req[r], m) THEN Clock(now) ELSE {now} :
           \E out \in {scan_on_zip(Conn, req[r], m, t)} :
               /\ req' = [req EXCEPT ![r] = out.q]
               /\ rows' = out.conn.rows
               /\ seq' = out.conn.seq
               /\ now' = IF out.saved THEN t ELSE now
               /\ lastPut' = IF out.saved
                             THEN RecordPut(<<req[r].ref[1], req[r].ref[2], req[r].sha>>,
                                            req[r].branch, t, out.q.scan_result[1], r)
                             ELSE lastPut
    /\ onb' = <<>>
    /\ UNCHANGED <<root, found, resp, head>>

\* somebody pushes to the default branch
RemotePush(ref) ==
    /\ head[ref] < MaxCommits
    /\ head' = [head EXCEPT ![ref] = head[ref] + 1]
    /\ onb' = <<>>
    /\ UNCHANGED <<root, found, rows, seq, resp, lastPut, now, req>>

OnboardingKeys == {<<OwnerA, RepoR, Sha(1)>>, <<OwnerA, RepoR, Sha(2)>>}

\* onb: the response being sent (it is gone at the next step)
Onboarding(owner, repo, branch, sha) ==
    /\ onb' = <<onboarding(Conn, owner, repo, branch, sha)>>
    /\ UNCHANGED <<root, found, rows, seq, resp, lastPut, head, now, req>>

Next ==
    \/ \E r \in ReqIds, repo_url \in Urls : ScanStart(r, repo_url)
    \/ \E r \in ReqIds : MetaReturns(r)
    \/ \E r \in ReqIds : ShaReturns(r)
    \/ \E r \in ReqIds : ZipReturns(r)
    \/ \E ref \in RemoteRepos : RemotePush(ref)
    \/ \E key \in OnboardingKeys : Onboarding(key[1], key[2], "main", key[3])

Spec == Init /\ [][Next]_vars

----------------------------------------------------------------------------
(* Claims about scan_repo (SpecScan) *)

RECURSIVE SumOver(_, _)
SumOver(f, S) ==
    IF S = {} THEN 0
    ELSE LET x == CHOOSE y \in S : TRUE
         IN  f[x] + SumOver(f, S \ {x})

\* some candidate name of the list is a regular file of the scanned root
RootHas(names) == \E i \in 1..Len(names) : names[i] \in root.files

\* the weight of every condition the score counts; whatever is not listed
\* (the license section, the build files) weighs nothing
Weights ==
    [README |-> 25, LICENSE |-> 8, CONTRIBUTING |-> 8, CODE_OF_CONDUCT |-> 5,
     SECURITY |-> 5, CHANGELOG |-> 4, ENV_EXAMPLE |-> 10,
     installation |-> 6, usage |-> 6, configuration |-> 6, tests |-> 4,
     development |-> 4]

\* the conditions that are true of the scanned root and of the sections found
TrueConditions(r) ==
    {"README" : x \in {1} \cap {IF RootHas(README_NAMES) THEN 1 ELSE 0}}
    \cup {k \in KeySet(DOC_FILES) : RootHas(Lookup(DOC_FILES, k))}
    \cup {"ENV_EXAMPLE" : x \in {1} \cap {IF RootHas(ENV_FILES) THEN 1 ELSE 0}}
    \cup {k \in KeySet(COMMON_HEADINGS) \ {"license"} : r.readme.sections[k]}

ReadmeOnlyInstallUsage ==
    /\ root.files = {"README.md"}
    /\ root.readme = <<ReadmePool[1], ReadmePool[2]>>

\* C8: the score of every scanned tree is the sum of the fixed weights of the
\* conditions that are true, clamped to 100, and lies in 0..100; it is 0 for an
\* empty root and 37 for a root holding only a README with Installation and
\* Usage headings.
C8_ScoreIsWeightSum ==
    found # <<>> =>
        LET r == found[1]
        IN  /\ r.score = Min(SumOver(Weights, TrueConditions(r)), 100)
            /\ r.score >= 0 /\ r.score <= 100
            /\ (root.files = {} => r.score = 0)
            /\ (ReadmeOnlyInstallUsage => r.score = 37)

C8_Witness ==
    /\ found # <<>>
    /\ ReadmeOnlyInstallUsage
    /\ found[1].readme.sections["installation"]
    /\ found[1].readme.sections["usage"]
    /\ ~found[1].readme.sections["configuration"]
    /\ found[1].score = 37

\* the suggestions as the specification words them
ExpectedSuggestions(r) ==
    (IF ~RootHas(README_NAMES)
     THEN <<"Add a README.md with purpose + quickstart + dev instructions.">>
     ELSE (IF r.readme.sections["installation"] THEN <<>>
           ELSE <<"Add a README section: Installation.">>)
          \o (IF r.readme.sections["usage"] THEN <<>>
              ELSE <<"Add a README section: Usage.">>)
          \o (IF r.readme.sections["configuration"] THEN <<>>
              ELSE <<"Add a README section: Configuration.">>)
          \o (IF r.readme.sections["tests"] THEN <<>>
              ELSE <<"Add a README section: Tests.">>))
    \o (IF RootHas(Lookup(DOC_FILES, "LICENSE")) THEN <<>>
        ELSE <<"Add a LICENSE file (MIT/Apache-2.0/etc).">>)
    \o (IF RootHas(Lookup(DOC_FILES, "CONTRIBUTING")) THEN <<>>
        ELSE <<"Add CONTRIBUTING.md with local dev + PR guidelines.">>)
    \o (IF RootHas(ENV_FILES) THEN <<>>
        ELSE <<"Add .env.example (or document required environment variables).">>)

AllSections(r) == \A k \in KeySet(COMMON_HEADINGS) : r.readme.sections[k]

\* C9: the suggestions of every scanned tree are exactly: the README suggestion
\* when no README is found (and then every section is false), else one
\* suggestion per false section among installation, usage, configuration,
\* tests, in that order; then one each for a missing LICENSE, CONTRIBUTING and
\* env example, in that order.  An empty root gets exactly 4 suggestions, a tree
\* with README (all sections), LICENSE, CONTRIBUTING and env example gets none.
C9_SuggestionsExact ==
    found # <<>> =>
        LET r == found[1]
        IN  /\ r.suggestions = ExpectedSuggestions(r)
            /\ (~RootHas(README_NAMES) =>
                    \A k \in KeySet(COMMON_HEADINGS) : ~r.readme.sections[k])
            /\ (root.files = {} => Len(r.suggestions) = 4)
            /\ (/\ AllSections(r)
                /\ {"README.md", "LICENSE", "CONTRIBUTING.md", ".env.example"}
                       \subseteq root.files
                => r.suggestions = <<>>)

\* a README lacking the development and license headings, with nothing
\* suggested for them nor for the missing CODE_OF_CONDUCT, SECURITY, CHANGELOG
C9_Witness ==
    /\ found # <<>>
    /\ root.files = {"README.md", "LICENSE"}
    /\ root.readme = <<ReadmePool[1], ReadmePool[3]>>
    /\ ~found[1].readme.sections["development"]
    /\ ~found[1].readme.sections["license"]
    /\ found[1].suggestions =
           <<"Add a README section: Usage.",
             "Add a README section: Tests.",
             "Add CONTRIBUTING.md with local dev + PR guidelines.",
             "Add .env.example (or document required environment variables).">>

----------------------------------------------------------------------------
(* Claims about the cache (SpecDb, SpecRecent) *)

RowsOf(key) == {row \in rows : RowKey(row) = key}

\* what get must return for a key: the result of its latest put, else absent
LatestResult(key) ==
    IF key \in DOMAIN lastPut THEN <<lastPut[key].result>> ELSE <<>>

\* C3: after any sequence of puts the cache holds at most one row per key, rows
\* only for keys that were put, and the row of a key carries the branch,
\* scanned_at and result of the latest put for that key (a second put replaces
\* them wholesale and leaves the rows of other keys as they were); get returns
\* the result of the latest put.
C3_PutOverwrites ==
    /\ \A key \in DbKeys : Cardinality(RowsOf(key)) <= 1
    /\ {RowKey(row) : row \in rows} = DOMAIN lastPut
    /\ \A row \in rows :
           /\ row.branch = lastPut[RowKey(row)].branch
           /\ row.scanned_at = lastPut[RowKey(row)].scanned_at
           /\ json_loads(row.result_json) = lastPut[RowKey(row)].result
    /\ (resp.op = "put" => resp.out = <<FALSE>>)
    /\ (resp.op = "get" /\ resp.key \in DOMAIN lastPut
            => resp.out = <<lastPut[resp.key].result>>)

\* a key put twice with different results, then read
C3_Witness ==
    /\ resp.op = "get"
    /\ resp.key \in DOMAIN lastPut
    /\ lastPut[resp.key].prev # <<>>
    /\ lastPut[resp.key].prev # <<lastPut[resp.key].result>>
    /\ resp.out = <<lastPut[resp.key].result>>
    /\ Cardinality(rows) = 2

\* C4: get after put returns exactly the result that was put, and keeps
\* returning it after later puts to other keys and later get and list_recent
\* calls; get for a key that was never put returns absent.
C4_RoundTrip ==
    /\ \A key \in DbKeys : get_cached(Conn, key[1], key[2], key[3]) = LatestResult(key)
    /\ (resp.op = "get" => resp.out = LatestResult(resp.key))

\* the first key read back after a later put to the second key, the third key
\* (same repo name and sha, other owner) and nothing else absent
C4_Witness ==
    /\ resp.op = "get"
    /\ resp.key = <<OwnerA, RepoR, Sha(1)>>
    /\ resp.out # <<>>
    /\ resp.out = <<lastPut[resp.key].result>>
    /\ \E r1 \in RowsOf(<<OwnerA, RepoR, Sha(1)>>), r2 \in RowsOf(<<OwnerA, RepoR, Sha(2)>>) :
           /\ r1.id < r2.id
           /\ r1.result_json # r2.result_json
    /\ get_cached(Conn, OwnerB, RepoR, Sha(1)) = <<>>

\* the rows of S, newest id first
RECURSIVE ByIdDesc(_)
ByIdDesc(S) ==
    IF S = {} THEN <<>>
    ELSE LET m == CHOOSE r \in S : \A o \in S : o.id <= r.id
         IN  <<Summary(m)>> \o ByIdDesc(S \ {m})

\* every row was inserted with a larger scanned_at than the rows before it
InsertedInTimeOrder ==
    \A a \in rows, b \in rows : a.id < b.id => a.scanned_at < b.scanned_at

\* what C7 says of one result of list_recent(limit), but for its length
RecentShape(out, limit) ==
    LET kept == {out[i] : i \in 1..Len(out)}
    IN  /\ kept \subseteq {Summary(row) : row \in rows}
        /\ Cardinality(kept) = Len(out)
        /\ \A i \in 1..Len(out), j \in 1..Len(out) :
               i < j => out[i].scanned_at >= out[j].scanned_at
        /\ \A row \in rows : Summary(row) \notin kept =>
               \A i \in 1..Len(out) : row.scanned_at <= out[i].scanned_at
        /\ \A i \in 1..Len(out) :
               LET p == lastPut[<<out[i].owner, out[i].repo, out[i].sha>>]
               IN  out[i].scanned_at = p.scanned_at /\ out[i].branch = p.branch
        /\ (Cardinality(rows) = 5 /\ InsertedInTimeOrder /\ limit = 3
                => out = SubSeq(ByIdDesc(rows), 1, 3))

\* C7 as claimed: list_recent(limit) returns min(limit, number of rows) row
\* summaries, newest scanned_at first, no row left out being newer than a row
\* returned, a re-put key once with its latest scanned_at; list_recent(3) on
\* 5 rows inserted with strictly increasing scanned_at returns the 3 inserted
\* last, newest first.
C7_AsClaimed ==
    resp.op = "list" =>
        /\ resp.out # {}
        /\ \A out \in resp.out :
               /\ Len(out) = Min(resp.limit, Cardinality(rows))
               /\ RecentShape(out, resp.limit)

\* C7 amended: the same for every limit >= 0; a negative limit returns all the
\* rows, in the same order.
C7_RecentNonNegative ==
    resp.op = "list" =>
        /\ resp.out # {}
        /\ \A out \in resp.out :
               /\ Len(out) = IF resp.limit < 0 THEN Cardinality(rows)
                             ELSE Min(resp.limit, Cardinality(rows))
               /\ RecentShape(out, resp.limit)

C7_Witness ==
    /\ resp.op = "list"
    /\ resp.limit = 3
    /\ Cardinality(rows) = 5
    /\ InsertedInTimeOrder
    /\ resp.out = {SubSeq(ByIdDesc(rows), 1, 3)}

----------------------------------------------------------------------------
(* Claims about the request handlers (Spec) *)

ReqKey(q) == <<q.ref[1], q.ref[2], q.sha>>

\* the commit a sha names
CommitOf(sha) == sha[1]

\* C1: in every reachable state the result stored under (owner, repo, sha) is
\* the scan result of the tree of commit sha, whatever the interleaving of scan
\* requests and pushes to the default branch.
C1_CachedIsScanOfSha ==
    \A row \in rows :
        json_loads(row.result_json) = scan_repo(TreeAt(CommitOf(row.sha)))

\* C2: when two requests both missed the same key and both called save_scan,
\* both complete without a storage error, and the cache holds exactly one row
\* for the key, with the branch, scanned_at and result of the last writer.
C2_DuplicateWriteHarmless ==
    /\ \A r \in ReqIds : req[r].puts # <<>> => req[r].status = 200
    /\ \A r1 \in ReqIds, r2 \in ReqIds :
           r1 # r2 /\ req[r1].puts # <<>> /\ req[r2].puts = req[r1].puts =>
               LET key == req[r1].puts[1]
                   w   == lastPut[key].by
               IN  /\ w \in ReqIds
                   /\ req[w].puts = <<key>>
                   /\ Cardinality(RowsOf(key)) = 1
                   /\ \A row \in RowsOf(key) :
                          /\ row.branch = req[w].branch
                          /\ row.scanned_at = lastPut[key].scanned_at
                          /\ json_loads(row.result_json) = req[w].scan_result[1]

\* both requests wrote the same key; the row is the second write
C2_Witness ==
    /\ req[1].puts # <<>>
    /\ req[2].puts = req[1].puts
    /\ req[1].status = 200 /\ req[2].status = 200
    /\ \E row \in RowsOf(req[1].puts[1]) : row.id = 2
    /\ Cardinality(rows) = 1

\* C5 as claimed: every scan request that has resolved the branch and the
\* latest commit has read the cache under (owner, repo, sha), whatever sha the
\* commit lookup returned; every onboarding request reads the cache.
C5_AsClaimed ==
    /\ \A r \in ReqIds : req[r].resolved => req[r].looked = <<ReqKey(req[r])>>
    /\ (onb # <<>> => onb[1].looked = <<onb[1].key>>)

\* C5 amended: the same for every non-empty sha, read before the download is
\* decided; with an empty sha the cache is not read and the request downloads.
C5_LookupWhenSha ==
    /\ \A r \in ReqIds :
           /\ req[r].resolved /\ req[r].sha # <<>> => req[r].looked = <<ReqKey(req[r])>>
           /\ req[r].resolved /\ req[r].sha = <<>> =>
                  req[r].looked = <<>> /\ req[r].fetched /\ req[r].puts = <<>>
           /\ req[r].fetched => req[r].resolved
    /\ (onb # <<>> => onb[1].looked = <<onb[1].key>>)

\* one request read the cache under its sha, the other resolved an empty sha
C5_Witness ==
    \E r1 \in ReqIds, r2 \in ReqIds :
        /\ req[r1].resolved /\ req[r1].sha # <<>> /\ req[r1].pc = "zip"
        /\ req[r1].looked = <<ReqKey(req[r1])>>
        /\ req[r2].resolved /\ req[r2].sha = <<>> /\ req[r2].looked = <<>>

KeysIn(table) == {RowKey(row) : row \in table}

C6_Requests ==
    \A r \in ReqIds :
        /\ Len(req[r].puts) <= 1
        /\ (req[r].puts # <<>> =>
                /\ req[r].looked = req[r].puts
                /\ req[r].fetched /\ ~req[r].cached /\ req[r].scan_result # <<>>)
        /\ (req[r].cached =>
                /\ ~req[r].fetched /\ req[r].puts = <<>>
                /\ req[r].status = 200 /\ req[r].looked # <<>>)
        /\ (req[r].pc = "done" /\ req[r].status = 200 /\ ~req[r].cached
                /\ req[r].sha # <<>> => req[r].puts = <<ReqKey(req[r])>>)

C6_Step ==
    /\ rows' # rows =>
           \E r \in ReqIds :
               /\ req[r].pc = "zip" /\ req[r].looked # <<>>
               /\ req'[r].pc = "done" /\ req'[r].status = 200
               /\ req'[r].puts = req[r].looked
               /\ (rows \ rows') \subseteq RowsOf(req[r].looked[1])
               /\ \E row \in rows' :
                      /\ rows' \ rows = {row}
                      /\ RowKey(row) = req[r].looked[1]
                      /\ json_loads(row.result_json) = req'[r].scan_result[1]
    /\ \A r \in ReqIds :
           /\ req[r].status = 0 /\ req'[r].status \in {400, 500} => rows' = rows
           /\ req[r].looked = <<>> /\ req'[r].looked # <<>> =>
                  /\ rows' = rows
                  /\ IF RowsOf(req'[r].looked[1]) # {}
                     THEN /\ req'[r].cached /\ req'[r].pc = "done" /\ ~req'[r].fetched
                          /\ req'[r].scan_result =
                                 get_cached(Conn, req'[r].ref[1], req'[r].ref[2], req'[r].sha)
                     ELSE ~req'[r].cached /\ req'[r].fetched /\ req'[r].pc = "zip"
    /\ KeysIn(rows) \subseteq KeysIn(rows')

\* C6: a scan request changes the cache only after a miss, a successful download
\* and a scan, by exactly one put under the key it looked up; on a hit it does
\* not download, scan or put and returns the cached result; a request that
\* fails leaves the cache unchanged; no key is ever removed.
C6_CacheChangesOnlyOnMissAndScan == []C6_Requests /\ [][C6_Step]_vars

\* one request stored its result, the other found it in the cache
C6_Witness ==
    \E r1 \in ReqIds, r2 \in ReqIds :
        /\ req[r1].puts # <<>> /\ req[r1].status = 200
        /\ req[r2].cached /\ req[r2].looked = req[r1].puts
        /\ req[r2].scan_result = req[r1].scan_result

C10_Response ==
    /\ onb # <<>> =>
           IF RowsOf(onb[1].key) = {}
           THEN onb[1].status = 404 /\ onb[1].body = <<>>
           ELSE /\ onb[1].status = 200
                /\ \A row \in RowsOf(onb[1].key) :
                       onb[1].body = <<generate_onboarding_md(
                                         onb[1].key[1], onb[1].key[2],
                                         json_loads(row.result_json))>>
    /\ \A r \in ReqIds :
           req[r].puts # <<>> /\ req[r].status = 200 =>
               LET key == req[r].puts[1]
               IN  /\ RowsOf(key) # {}
                   /\ onboarding(Conn, key[1], key[2], req[r].branch, key[3]).status = 200

\* C10: an onboarding request for a key that is not in the cache is answered
\* 404 without raising and without changing the cache; for a key in the cache
\* it returns the document rendered from the cached result of that key; once a
\* scan request has stored its result, an onboarding request with its key
\* succeeds in every later state.
C10_OnboardingFromCache ==
    []C10_Response /\ [][onb' # <<>> => rows' = rows /\ seq' = seq]_vars

\* the document of a commit a request has stored
C10_Witness ==
    /\ onb # <<>>
    /\ onb[1].status = 200
    /\ \E r \in ReqIds : req[r].puts = <<onb[1].key>> /\ req[r].status = 200
    /\ \E key \in OnboardingKeys : RowsOf(key) = {}

====
